---- MODULE Spec2Model ----
(***************************************************************************)
(* The embedding index store of backend/app/faiss_server.py: one location  *)
(* (a vector index file and its metadata sidecar) and the request handlers *)
(* create_index, upsert_items, get_info and get_content acting on it.      *)
(* Every handler is cut at its accesses to the two files, so that handlers *)
(* running in the server's thread pool interleave as the code lets them.   *)
(* With it: how create_index finds the two files from a db_name, and the   *)
(* event stream of backend/app/docling_server.py's parse_document_stream.  *)
(***************************************************************************)
EXTENDS Integers, Sequences, FiniteSets, TLC

\* ------------------------------------------------------------ bounds

\* The longest batch of one upsert request.
MaxBatchLen == 2

\* Item ids are 1..MaxId.
MaxId == 2

\* The longest db_name of a create request, in characters.
MaxNameLen == 3

\* The most pages a converted document has.
MaxPages == 2

\* ------------------------------------------------------ program constants

\* _load_meta's default "dimension": None.
NoneDimension == 0

\* Query(50, ge=1, le=500): the largest limit get_content accepts.
LimitMax == 500

\* ------------------------------------------------------------ inputs

Procs == {1, 2}

IDs == 1..MaxId

MetricName == {"cosine", "l2", "ip"}

\* CreateIndexRequest.dimension: Field(..., gt=0).
Dims == {1, 2}

\* str(item.id) and int(key), on the ids of the model.
DigitStr == <<"0", "1", "2", "3", "4", "5", "6", "7", "8", "9">>

StrOfId(i) == DigitStr[i + 1]

IntOfKey(k) == CHOOSE i \in 0..9 : DigitStr[i + 1] = k

\* An UpsertItem.
Item(id, text, vector, metadata) ==
    [id |-> id, text |-> text, vector |-> vector, metadata |-> metadata]

\* What the items of one batch carry. Vectors have at most one component that
\* is not zero, so that their L2 norm is an integer and normalisation is exact.
\*   A, B, Z: three payloads of length 2;  S, T: two of length 1;  L: length 3;
\*   R1, R2: ragged batches (the first item's vector is longer, or shorter).
Kinds == {"A", "B", "Z", "S", "T", "L", "R1", "R2"}

KindItem(kind, id, pos) ==
    CASE kind = "A" -> Item(id, "a", <<2, 0>>, "{}")
      [] kind = "B" -> Item(id, "b", <<0, 2>>, "{k:1}")
      [] kind = "Z" -> Item(id, "a", <<0, 0>>, "{k:1}")
      [] kind = "S" -> Item(id, "b", <<2>>, "{}")
      [] kind = "T" -> Item(id, "a", <<0>>, "{k:1}")
      [] kind = "L" -> Item(id, "a", <<2, 0, 0>>, "{}")
      [] kind = "R1" -> Item(id, "a", IF pos = 1 THEN <<2, 0>> ELSE <<2>>, "{}")
      [] kind = "R2" -> Item(id, "b", IF pos = 1 THEN <<2>> ELSE <<0, 2>>, "{}")

IdSeqs(n) == UNION {[1..k -> IDs] : k \in 1..n}

BatchOf(ids, kind) == [i \in 1..Len(ids) |-> KindItem(kind, ids[i], i)]

\* UpsertRequest.items: Field(..., min_length=1).
Batches(n, kinds) == {BatchOf(ids, kind) : ids \in IdSeqs(n), kind \in kinds}

CreateRequests ==
    [type : {"create"}, dimension : Dims, metric : MetricName, overwrite : BOOLEAN]

\* get_content's parameters: offset ge=0; limit ge=1, le=500; preview_dim ge=1.
\* The offsets reach past the last record, the limits are the smallest ones and
\* the largest.
PageLimits == {1, 2, LimitMax}

ContentRequests ==
    [type : {"content"}, offset : 0..(MaxId + 1), limit : PageLimits,
     preview_dim : {1}]

\* ------------------------------------------------------------ files

NoFile == [kind |-> "absent"]

\* A file that was opened for writing (truncated) and not written to its end.
PartialFile == [kind |-> "partial"]

\* A changed Exists: the check that the file is there always passes.
Exists_Always(file) == TRUE

Exists(file) == file.kind # "absent"

Readable(file) == file.kind = "file"

\* ------------------------------------------------------------ the vector index

\* _metric_type
MetricType(metric) == IF metric = "l2" THEN "METRIC_L2" ELSE "METRIC_INNER_PRODUCT"

\* _new_index: an empty IndexIDMap2 over IndexFlat. entries is the flat storage
\* with its id map: the stored (id, vector) pairs in storage order.
NewIndex(dimension, metric) ==
    [kind |-> "file", d |-> dimension, metric_type |-> MetricType(metric),
     entries |-> <<>>]

Ntotal(index) == Len(index.entries)

IndexIds(index) == {index.entries[i].id : i \in 1..Len(index.entries)}

\* A changed RemoveIds: nothing is removed, so add_with_ids appends.
RemoveIds_Nothing(index, ids) == index

\* IndexIDMap2.remove_ids with an IDSelectorArray: drops every entry whose id
\* is selected; the ids that are not stored are ignored.
RemoveIds(index, ids) ==
    [index EXCEPT !.entries = SelectSeq(index.entries, LAMBDA e : e.id \notin ids)]

\* IndexIDMap2.add_with_ids: appends the pairs in batch order.
AddWithIds(index, vectors, ids) ==
    [index EXCEPT !.entries =
        index.entries \o [i \in 1..Len(ids) |-> [id |-> ids[i], vec |-> vectors[i]]]]

\* IndexIDMap2.reconstruct: the vector at the position rev_map holds for the
\* id (the last one added under it); a missing id raises.
CanReconstruct(index, id) == id \in IndexIds(index)

Reconstruct(index, id) ==
    LET pos == CHOOSE i \in 1..Len(index.entries) :
                   /\ index.entries[i].id = id
                   /\ \A j \in (i + 1)..Len(index.entries) : index.entries[j].id # id
    IN  index.entries[pos].vec

RECURSIVE SumSq(_)
SumSq(v) == IF v = <<>> THEN 0 ELSE Head(v) * Head(v) + SumSq(Tail(v))

Sqrt(n) == CHOOSE r \in 0..n : r * r = n

\* faiss.normalize_L2 on one row: a row of norm 0 is left as it is.
NormalizeL2(v) ==
    IF SumSq(v) = 0 THEN v ELSE [i \in 1..Len(v) |-> v[i] \div Sqrt(SumSq(v))]

\* ------------------------------------------------------------ the metadata

\* _load_meta when the sidecar does not exist.
DefaultMeta ==
    [kind |-> "file", dimension |-> NoneDimension, metric |-> "cosine",
     records |-> <<>>]

\* A changed NewMeta: the sidecar gets the default metric, not the requested one.
NewMeta_DefaultMetric(dimension, metric) ==
    [kind |-> "file", dimension |-> dimension, metric |-> "cosine", records |-> <<>>]

\* The meta written by create_index.
NewMeta(dimension, metric) ==
    [kind |-> "file", dimension |-> dimension, metric |-> metric, records |-> <<>>]

RecordKeys(meta) == DOMAIN meta.records

RecordIds(meta) == {IntOfKey(k) : k \in RecordKeys(meta)}

\* meta.get("metric", "cosine"), reset to cosine when it is no metric name.
MetricOf(meta) == IF meta.metric \in MetricName THEN meta.metric ELSE "cosine"

\* A changed PutRecords: only the first item of the batch is recorded.
PutRecords_FirstOnly(records, items) ==
    IF items = <<>> THEN records
    ELSE LET key == StrOfId(Head(items).id)
         IN  [k \in DOMAIN records \cup {key} |->
                 IF k = key
                 THEN [text |-> Head(items).text, metadata |-> Head(items).metadata]
                 ELSE records[k]]

\* A changed PutRecords: a key that has a record keeps it.
PutRecords_KeepExisting(records, items) ==
    LET new == {StrOfId(items[i].id) : i \in 1..Len(items)} \ DOMAIN records
        itemOf(k) == items[CHOOSE i \in 1..Len(items) : StrOfId(items[i].id) = k]
    IN  [k \in DOMAIN records \cup new |->
            IF k \in DOMAIN records THEN records[k]
            ELSE [text |-> itemOf(k).text, metadata |-> itemOf(k).metadata]]

\* A changed PutRecords: the records become those of the batch alone.
PutRecords_OnlyBatch(records, items) ==
    LET keys == {StrOfId(items[i].id) : i \in 1..Len(items)}
        itemOf(k) == items[CHOOSE i \in 1..Len(items) : StrOfId(items[i].id) = k]
    IN  [k \in keys |-> [text |-> itemOf(k).text, metadata |-> itemOf(k).metadata]]

\* records[str(item.id)] = {...} for every item, in batch order.
RECURSIVE PutRecords(_, _)
PutRecords(records, items) ==
    IF items = <<>> THEN records
    ELSE LET it == Head(items)
             key == StrOfId(it.id)
             rec == [text |-> it.text, metadata |-> it.metadata]
         IN  PutRecords([k \in DOMAIN records \cup {key} |->
                             IF k = key THEN rec ELSE records[k]],
                        Tail(items))

\* ------------------------------------------------------------ responses

\* An HTTPException (or, for kind "Unhandled", an exception no handler catches,
\* which the server answers with status 500).
Fail(code, kind) == [code |-> code, kind |-> kind]

IsOk(r) == r.code = 200

NoResp == [code |-> 0, kind |-> "none"]

\* ------------------------------------------------------------ upsert, in memory

ItemIds(items) == [i \in 1..Len(items) |-> items[i].id]

IdSet(items) == {items[i].id : i \in 1..Len(items)}

\* A changed HasDuplicateIds: the validator accepts every batch.
HasDuplicateIds_Never(items) == FALSE

\* UpsertRequest.validate_items: len(set(ids)) != len(ids).
HasDuplicateIds(items) == Cardinality(IdSet(items)) # Len(items)

\* np.array(..., dtype=np.float32) raises ValueError on rows of unequal length.
IsRagged(items) == \E i, j \in 1..Len(items) : Len(items[i].vector) # Len(items[j].vector)

\* vectors.shape[1] of a batch that is not ragged.
RowLen(items) == Len(items[1].vector)

\* A changed RowsOf: the rows are stored as given, whatever the metric.
RowsOf_Raw(items, metric) == [i \in 1..Len(items) |-> items[i].vector]

\* The rows add_with_ids gets: the batch's vectors, normalised under cosine.
RowsOf(items, metric) ==
    [i \in 1..Len(items) |->
        IF metric = "cosine" THEN NormalizeL2(items[i].vector) ELSE items[i].vector]

\* upsert_items from the loaded index and meta to the two structures it is about
\* to persist (lines 255-285), or the failure it raises before that.
UpsertApply(index, meta, items) ==
    LET dimension == index.d
        metric == MetricOf(meta)
        ids == ItemIds(items)
    IN  IF IsRagged(items)
        THEN [ok |-> FALSE, resp |-> Fail(500, "Unhandled")]
        ELSE IF RowLen(items) # dimension
        THEN [ok |-> FALSE,
              resp |-> [code |-> 400, kind |-> "DimensionMismatch",
                        expected |-> dimension, got |-> RowLen(items)]]
        ELSE [ok |-> TRUE,
              index |-> AddWithIds(RemoveIds(index, IdSet(items)),
                                   RowsOf(items, metric), ids),
              meta |-> [meta EXCEPT !.records = PutRecords(meta.records, items),
                                    !.dimension = dimension,
                                    !.metric = metric]]

UpsertResponse(index, meta, items) ==
    [code |-> 200, kind |-> "ok", upserted |-> Len(items), total |-> Ntotal(index),
     dimension |-> index.d, metric |-> meta.metric]

\* ------------------------------------------------------------ content, in memory

RECURSIVE SortAscending(_)
SortAscending(S) ==
    IF S = {} THEN <<>>
    ELSE LET m == CHOOSE x \in S : \A y \in S : x <= y
         IN  <<m>> \o SortAscending(S \ {m})

Min(a, b) == IF a <= b THEN a ELSE b

\* A changed Slice: the page starts one item late.
Slice_StartsLate(seq, offset, limit) ==
    [i \in 1..(Min(Len(seq), offset + 1 + limit) - Min(Len(seq), offset + 1)) |->
        seq[offset + 1 + i]]

\* seq[offset : offset + limit]
Slice(seq, offset, limit) ==
    [i \in 1..(Min(Len(seq), offset + limit) - Min(Len(seq), offset)) |->
        seq[offset + i]]

\* vector[:preview_dim], or [] when reconstruct raises.
EmbeddingPreview(index, id, preview_dim) ==
    IF CanReconstruct(index, id)
    THEN LET v == Reconstruct(index, id)
         IN  [i \in 1..Min(Len(v), preview_dim) |-> v[i]]
    ELSE <<>>

RecordView(index, meta, id, preview_dim) ==
    [id |-> id,
     text |-> meta.records[StrOfId(id)].text,
     metadata |-> meta.records[StrOfId(id)].metadata,
     embedding_preview |-> EmbeddingPreview(index, id, preview_dim)]

\* all_items after the sort of line 368.
AllItems(index, meta, preview_dim) ==
    LET order == SortAscending(RecordIds(meta))
    IN  [i \in 1..Len(order) |-> RecordView(index, meta, order[i], preview_dim)]

\* A changed ContentResponse: a record without a vector fails the request.
ContentResponse_FailsOnMissing(index, meta, req) ==
    IF \E id \in RecordIds(meta) : ~CanReconstruct(index, id)
    THEN Fail(500, "Unhandled")
    ELSE [code |-> 200, kind |-> "ok", total |-> Ntotal(index), dimension |-> index.d,
          metric |-> MetricOf(meta),
          items |-> Slice(AllItems(index, meta, req.preview_dim), req.offset, req.limit)]

ContentResponse(index, meta, req) ==
    [code |-> 200, kind |-> "ok", total |-> Ntotal(index), dimension |-> index.d,
     metric |-> MetricOf(meta),
     items |-> Slice(AllItems(index, meta, req.preview_dim), req.offset, req.limit)]

InfoResponse(index, meta) ==
    [code |-> 200, kind |-> "ok", total |-> Ntotal(index), dimension |-> index.d,
     metric |-> MetricOf(meta)]

CreateResponse(req) ==
    [code |-> 200, kind |-> "ok", total |-> 0, dimension |-> req.dimension, metric |-> req.metric]

\* ------------------------------------------------------------ locations

\* Strings are sequences of characters, so that suffixes can be cut and joined.
\* The characters a db_name is made of: two letters, the dot, the blank.
NameChars == {"a", "v", ".", " "}

DbNames == UNION {[1..n -> NameChars] : n \in 1..MaxNameLen}

\* str.strip() strips white space.
Whitespace == {" "}

\* The characters of the model that [a-zA-Z0-9._-] matches.
NameAllowed == {"a", "v", ".", "-", "_"}

FaissSuffix == <<".", "f", "a", "i", "s", "s">>

MetaSuffix == <<".", "m", "e", "t", "a", ".", "j", "s", "o", "n">>

RECURSIVE LStrip(_, _)
LStrip(s, chars) ==
    IF s # <<>> /\ Head(s) \in chars THEN LStrip(Tail(s), chars) ELSE s

RECURSIVE RStrip(_, _)
RStrip(s, chars) ==
    IF s # <<>> /\ s[Len(s)] \in chars THEN RStrip(SubSeq(s, 1, Len(s) - 1), chars) ELSE s

\* str.strip(chars)
StripChars(s, chars) == RStrip(LStrip(s, chars), chars)

\* re.sub(r"[^a-zA-Z0-9._-]+", "-", s): every run of other characters becomes
\* one "-".
RECURSIVE SubInvalid(_)
SubInvalid(s) ==
    IF s = <<>> THEN <<>>
    ELSE IF Head(s) \in NameAllowed
    THEN <<Head(s)>> \o SubInvalid(Tail(s))
    ELSE <<"-">> \o SubInvalid(LStrip(Tail(s), NameChars \ NameAllowed))

\* _safe_db_name; the empty string stands for its HTTP 400.
SafeDbName(name) ==
    StripChars(SubInvalid(StripChars(name, Whitespace)), {".", "-", "_"})

\* PurePath.suffix of a file name: from its last dot on, unless that dot is the
\* first or the last character.
Suffix(name) ==
    LET dots == {i \in 1..Len(name) : name[i] = "."}
    IN  IF dots = {} THEN <<>>
        ELSE LET j == CHOOSE i \in dots : \A k \in dots : k <= i
             IN  IF 1 < j /\ j < Len(name) THEN SubSeq(name, j, Len(name)) ELSE <<>>

\* PurePath.with_suffix: the suffix replaces the one the name has.
WithSuffix(name, suffix) ==
    SubSeq(name, 1, Len(name) - Len(Suffix(name))) \o suffix

\* _normalize_db_path, on a resolved path (directory and file name).
NormalizeDbPath(path) ==
    IF Suffix(path.name) # FaissSuffix
    THEN [path EXCEPT !.name = WithSuffix(@, FaissSuffix)]
    ELSE path

\* _meta_path
MetaPath(db_file) == [db_file EXCEPT !.name = WithSuffix(@, MetaSuffix)]

\* CreateIndexRequest.validate_location and _resolve_create_db_path, for a
\* request that names its index by base_dir and db_name.
ResolveCreateDbPath(base_dir, db_name) ==
    IF StripChars(db_name, Whitespace) = <<>>
    THEN Fail(422, "Validation")
    ELSE IF SafeDbName(db_name) = <<>>
    THEN Fail(400, "InvalidName")
    ELSE LET db_file == NormalizeDbPath([dir |-> base_dir, name |-> SafeDbName(db_name)])
         IN  [code |-> 200, kind |-> "ok", db_file |-> db_file, meta |-> MetaPath(db_file)]

\* ------------------------------------------------------------ state

VARIABLES
    idxFile,    \* the index file at the location
    metaFile,   \* its metadata sidecar
    pc,         \* per handler: where it stands
    op,         \* per handler: the request it serves
    index,      \* per handler: the index it holds in memory
    meta,       \* per handler: the meta it holds in memory
    resp,       \* per handler: the response it gave
    pre,        \* per handler: the two files as they were when the request came in
    last,       \* the successful upsert that returned last, nothing since
    res,        \* two db_names and the files create_index resolves them to
    stream      \* parse_document_stream's generator and the events it has sent

vars == <<idxFile, metaFile, pc, op, index, meta, resp, pre, last, res, stream>>

store == <<idxFile, metaFile, pc, op, index, meta, resp, pre, last>>

NoOp == [type |-> "none"]

NoSnap == [idx |-> NoFile, meta |-> NoFile]

NoLast == [valid |-> FALSE]

NoNames == [phase |-> "none"]

NoStream ==
    [pc |-> "idle", events |-> <<>>, tmp |-> FALSE,
     page_no |-> 0, pages |-> 0, num_pages |-> 0]

Disk == [idx |-> idxFile, meta |-> metaFile]

Init ==
    /\ idxFile = NoFile
    /\ metaFile = NoFile
    /\ pc = [p \in Procs |-> "idle"]
    /\ op = [p \in Procs |-> NoOp]
    /\ index = [p \in Procs |-> NoFile]
    /\ meta = [p \in Procs |-> NoFile]
    /\ resp = [p \in Procs |-> NoResp]
    /\ pre = [p \in Procs |-> NoSnap]
    /\ last = NoLast
    /\ res = NoNames
    /\ stream = NoStream

\* The request is taken up. The history variables pre and last are kept where
\* track is set (the specifications that serve one request at a time).
Take(p, req, track) ==
    /\ pc[p] = "idle"
    /\ op' = [op EXCEPT ![p] = req]
    /\ pre' = [pre EXCEPT ![p] = IF track THEN Disk ELSE NoSnap]
    /\ last' = IF last.valid /\ req.type = "upsert" /\ req.items = last.items
               THEN last ELSE NoLast

\* The handlers of the index store below touch neither res nor stream.
Answer(p, r) ==
    /\ pc' = [pc EXCEPT ![p] = "done"]
    /\ resp' = [resp EXCEPT ![p] = r]
    /\ UNCHANGED <<res, stream>>

Goto(p, label) ==
    /\ pc' = [pc EXCEPT ![p] = label]
    /\ UNCHANGED <<resp, res, stream>>

\* ------------------------------------------------------------ handlers

\* A changed CreateRefused: an existing index is overwritten without being asked.
CreateRefused_Never(file, req) == FALSE

\* create_index, line 215: db_file.exists() and not payload.overwrite.
CreateRefused(file, req) == Exists(file) /\ ~req.overwrite

\* create_index, lines 212-219.
BeginCreate(p, req, track) ==
    /\ Take(p, req, track)
    /\ UNCHANGED <<idxFile, metaFile>>
    /\ IF CreateRefused(idxFile, req)
       THEN /\ Answer(p, Fail(400, "AlreadyExists"))
            /\ UNCHANGED <<index, meta>>
       ELSE /\ Goto(p, "write_index")
            /\ index' = [index EXCEPT ![p] = NewIndex(req.dimension, req.metric)]
            /\ meta' = [meta EXCEPT ![p] = NewMeta(req.dimension, req.metric)]

\* upsert_items up to its first read: the request's validation and lines 244-250.
BeginUpsert(p, items, track) ==
    /\ Take(p, [type |-> "upsert", items |-> items], track)
    /\ UNCHANGED <<idxFile, metaFile, index, meta>>
    /\ IF HasDuplicateIds(items)
       THEN Answer(p, Fail(422, "DuplicateId"))
       ELSE IF ~Exists(idxFile)
       THEN Answer(p, Fail(404, "NotFound"))
       ELSE Goto(p, "read_index")

\* get_info and get_content up to their first read.
BeginRead(p, req, track) ==
    /\ Take(p, req, track)
    /\ UNCHANGED <<idxFile, metaFile, index, meta>>
    /\ IF ~Exists(idxFile)
       THEN Answer(p, Fail(404, "NotFound"))
       ELSE Goto(p, "read_index")

\* _read_index
ReadIndex(p) ==
    /\ pc[p] = "read_index"
    /\ UNCHANGED <<idxFile, metaFile, op, meta, pre, last>>
    /\ IF Readable(idxFile)
       THEN /\ Goto(p, "load_meta")
            /\ index' = [index EXCEPT ![p] = idxFile]
       ELSE /\ Answer(p, Fail(500, "CorruptIndex"))
            /\ UNCHANGED index

\* _load_meta, and what the handler computes from the two loaded structures
\* before it touches a file again.
LoadMeta(p) ==
    /\ pc[p] = "load_meta"
    /\ UNCHANGED <<idxFile, metaFile, op, pre, last>>
    /\ IF metaFile = PartialFile
       THEN /\ Answer(p, Fail(500, "CorruptMetadata"))
            /\ UNCHANGED <<index, meta>>
       ELSE LET m == IF Exists(metaFile) THEN metaFile ELSE DefaultMeta
            IN  CASE op[p].type = "upsert" ->
                       LET out == UpsertApply(index[p], m, op[p].items)
                       IN  IF out.ok
                           THEN /\ Goto(p, "write_index")
                                /\ index' = [index EXCEPT ![p] = out.index]
                                /\ meta' = [meta EXCEPT ![p] = out.meta]
                           ELSE /\ Answer(p, out.resp)
                                /\ meta' = [meta EXCEPT ![p] = m]
                                /\ UNCHANGED index
                  [] op[p].type = "info" ->
                       /\ Answer(p, InfoResponse(index[p], m))
                       /\ meta' = [meta EXCEPT ![p] = m]
                       /\ UNCHANGED index
                  [] op[p].type = "content" ->
                       /\ Answer(p, ContentResponse(index[p], m, op[p]))
                       /\ meta' = [meta EXCEPT ![p] = m]
                       /\ UNCHANGED index

\* faiss.write_index opens the file for writing, which truncates it ...
WriteIndexOpen(p) ==
    /\ pc[p] = "write_index"
    /\ idxFile' = PartialFile
    /\ Goto(p, "write_index_body")
    /\ UNCHANGED <<metaFile, op, index, meta, pre, last>>

\* ... and writes the index to its end.
WriteIndexBody(p) ==
    /\ pc[p] = "write_index_body"
    /\ idxFile' = index[p]
    /\ Goto(p, "save_meta")
    /\ UNCHANGED <<metaFile, op, index, meta, pre, last>>

\* _save_meta: write_text opens the sidecar for writing, which truncates it ...
SaveMetaOpen(p) ==
    /\ pc[p] = "save_meta"
    /\ metaFile' = PartialFile
    /\ Goto(p, "save_meta_body")
    /\ UNCHANGED <<idxFile, op, index, meta, pre, last>>

\* ... and writes the document; the handler then returns its response.
SaveMetaBody(p) ==
    /\ pc[p] = "save_meta_body"
    /\ metaFile' = meta[p]
    /\ Answer(p, IF op[p].type = "create"
                 THEN CreateResponse(op[p])
                 ELSE UpsertResponse(index[p], meta[p], op[p].items))
    /\ UNCHANGED <<idxFile, op, index, meta, pre, last>>

\* The response is sent and the handler's memory is released.
Return(p, track) ==
    /\ pc[p] = "done"
    /\ last' = IF track /\ op[p].type = "upsert" /\ IsOk(resp[p])
               THEN [valid |-> TRUE, items |-> op[p].items, total |-> resp[p].total]
               ELSE last
    /\ pc' = [pc EXCEPT ![p] = "idle"]
    /\ op' = [op EXCEPT ![p] = NoOp]
    /\ index' = [index EXCEPT ![p] = NoFile]
    /\ meta' = [meta EXCEPT ![p] = NoFile]
    /\ resp' = [resp EXCEPT ![p] = NoResp]
    /\ pre' = [pre EXCEPT ![p] = NoSnap]
    /\ UNCHANGED <<idxFile, metaFile, res, stream>>

\* ------------------------------------------------------------ failures

\* The server process dies: every handler in flight is gone, the files stay.
Crash ==
    /\ \E p \in Procs : pc[p] # "idle"
    /\ pc' = [p \in Procs |-> "idle"]
    /\ op' = [p \in Procs |-> NoOp]
    /\ index' = [p \in Procs |-> NoFile]
    /\ meta' = [p \in Procs |-> NoFile]
    /\ resp' = [p \in Procs |-> NoResp]
    /\ pre' = [p \in Procs |-> NoSnap]
    /\ last' = NoLast
    /\ UNCHANGED <<idxFile, metaFile, res, stream>>

\* faiss.write_index cannot open the file: nothing is written.
WriteIndexOpenFail(p) ==
    /\ pc[p] = "write_index"
    /\ Answer(p, Fail(500, "IOError"))
    /\ UNCHANGED <<idxFile, metaFile, op, index, meta, pre, last>>

\* A changed WriteIndexBodyFail: the failure is swallowed and the handler goes on
\* to write the sidecar.
WriteIndexBodyFail_GoesOn(p) ==
    /\ pc[p] = "write_index_body"
    /\ Goto(p, "save_meta")
    /\ UNCHANGED <<idxFile, metaFile, op, index, meta, pre, last>>

\* faiss.write_index fails after it opened the file.
WriteIndexBodyFail(p) ==
    /\ pc[p] = "write_index_body"
    /\ Answer(p, Fail(500, "IOError"))
    /\ UNCHANGED <<idxFile, metaFile, op, index, meta, pre, last>>

\* write_text cannot open the sidecar; no handler catches the OSError.
SaveMetaOpenFail(p) ==
    /\ pc[p] = "save_meta"
    /\ Answer(p, Fail(500, "Unhandled"))
    /\ UNCHANGED <<idxFile, metaFile, op, index, meta, pre, last>>

\* write_text fails after it opened the sidecar.
SaveMetaBodyFail(p) ==
    /\ pc[p] = "save_meta_body"
    /\ Answer(p, Fail(500, "Unhandled"))
    /\ UNCHANGED <<idxFile, metaFile, op, index, meta, pre, last>>

\* ------------------------------------------------------------ resolving names

\* Two create requests with the same base_dir: where each one's files are.
ResolveCreate(n1, n2) ==
    /\ res.phase = "none"
    /\ res' = [phase |-> "resolved", names |-> <<n1, n2>>,
               located |-> <<ResolveCreateDbPath("base", n1),
                             ResolveCreateDbPath("base", n2)>>]
    /\ UNCHANGED <<store, stream>>

\* A later request addresses each index by the db_path create_index returned:
\* upsert_items, get_info and get_content pass it through _normalize_db_path.
AddressByPath ==
    /\ res.phase = "resolved"
    /\ res' = [phase |-> "addressed", names |-> res.names, located |-> res.located,
               again |-> [i \in 1..2 |->
                   IF IsOk(res.located[i])
                   THEN NormalizeDbPath(res.located[i].db_file)
                   ELSE res.located[i]]]
    /\ UNCHANGED <<store, stream>>

\* ------------------------------------------------------------ the event stream

\* _sse_event
SseEvent(event, data) == [event |-> event, data |-> data]

Yield(e, label) ==
    stream' = [stream EXCEPT !.events = Append(@, e), !.pc = label]

\* event_generator starts: the upload is written to a temporary file.
StreamBegin ==
    /\ stream.pc = "idle"
    /\ stream' = [stream EXCEPT !.pc = "build", !.tmp = TRUE]
    /\ UNCHANGED <<store, res>>

\* _build_converter returns; the first progress event.
BuildConverter ==
    /\ stream.pc = "build"
    /\ Yield(SseEvent("progress", [status |-> "converting", page |-> 0, total_pages |-> 0]),
             "convert")
    /\ UNCHANGED <<store, res>>

BuildConverterRaises ==
    /\ stream.pc = "build"
    /\ stream' = [stream EXCEPT !.pc = "except"]
    /\ UNCHANGED <<store, res>>

\* converter.convert succeeds: the document's pages and the result's.
Convert(pages, num_pages) ==
    /\ stream.pc = "convert"
    /\ stream' = [stream EXCEPT !.pc = "pages", !.pages = pages,
                                !.num_pages = num_pages, !.page_no = 1]
    /\ UNCHANGED <<store, res>>

\* A changed ConvertNotSuccess: the generator does not return after the error
\* event.
ConvertNotSuccess_GoesOn ==
    /\ stream.pc = "convert"
    /\ stream' = [stream EXCEPT !.events = Append(@, SseEvent("error", [message |-> "status"])),
                                !.pc = "pages", !.page_no = 1]
    /\ UNCHANGED <<store, res>>

\* result.status != ConversionStatus.SUCCESS: the error event, and return.
ConvertNotSuccess ==
    /\ stream.pc = "convert"
    /\ Yield(SseEvent("error", [message |-> "status"]), "finally")
    /\ UNCHANGED <<store, res>>

ConvertRaises ==
    /\ stream.pc = "convert"
    /\ stream' = [stream EXCEPT !.pc = "except"]
    /\ UNCHANGED <<store, res>>

\* The loop over doc.pages: the progress event of page page_no.
PageProgress ==
    /\ stream.pc = "pages"
    /\ stream.page_no <= stream.pages
    /\ Yield(SseEvent("progress", [status |-> "processing", page |-> stream.page_no,
                                   total_pages |-> stream.num_pages]),
             "export_page")
    /\ UNCHANGED <<store, res>>

\* doc.export_to_markdown(page_no=page_no) returns: the page's result.
ExportPage ==
    /\ stream.pc = "export_page"
    /\ stream' = [stream EXCEPT
           !.events = Append(@, SseEvent("page_result", [page |-> stream.page_no])),
           !.pc = "pages", !.page_no = @ + 1]
    /\ UNCHANGED <<store, res>>

\* ... or raises: the page is passed over.
ExportPageRaises ==
    /\ stream.pc = "export_page"
    /\ stream' = [stream EXCEPT !.pc = "pages", !.page_no = @ + 1]
    /\ UNCHANGED <<store, res>>

\* After the loop: doc.export_to_markdown() returns, the complete event.
ExportDocument ==
    /\ stream.pc = "pages"
    /\ stream.page_no > stream.pages
    /\ Yield(SseEvent("complete", [num_pages |-> stream.num_pages]), "finally")
    /\ UNCHANGED <<store, res>>

ExportDocumentRaises ==
    /\ stream.pc = "pages"
    /\ stream.page_no > stream.pages
    /\ stream' = [stream EXCEPT !.pc = "except"]
    /\ UNCHANGED <<store, res>>

\* except Exception: the error event.
Except ==
    /\ stream.pc = "except"
    /\ Yield(SseEvent("error", [message |-> "exception"]), "finally")
    /\ UNCHANGED <<store, res>>

\* finally: tmp_path.unlink(missing_ok=True); the stream ends.
Finally ==
    /\ stream.pc = "finally"
    /\ stream' = [stream EXCEPT !.pc = "ended", !.tmp = FALSE]
    /\ UNCHANGED <<store, res>>

\* ------------------------------------------------------------ specifications

\* One step of handler p, its request drawn from the given sets.
Step(p, creates, batches, reads, track) ==
    \/ \E req \in creates : BeginCreate(p, req, track)
    \/ \E items \in batches : BeginUpsert(p, items, track)
    \/ \E req \in reads : BeginRead(p, req, track)
    \/ ReadIndex(p)
    \/ LoadMeta(p)
    \/ WriteIndexOpen(p)
    \/ WriteIndexBody(p)
    \/ SaveMetaOpen(p)
    \/ SaveMetaBody(p)
    \/ Return(p, track)

\* One failure of a write of handler p.
IOFailure(p) ==
    \/ WriteIndexOpenFail(p)
    \/ WriteIndexBodyFail(p)
    \/ SaveMetaOpenFail(p)
    \/ SaveMetaBodyFail(p)

ReadRequests == {[type |-> "info"]} \cup ContentRequests

SeqBatches == Batches(MaxBatchLen, Kinds)

\* Requests served one at a time, no failure.
SeqNext == Step(1, CreateRequests, SeqBatches, ReadRequests, TRUE)

SeqSpec == Init /\ [][SeqNext]_vars

\* The requests of the specifications with failures or several handlers: two
\* indexes that differ in dimension and metric, one-item batches on two ids.
FewCreates ==
    {[type |-> "create", dimension |-> 2, metric |-> "cosine", overwrite |-> FALSE],
     [type |-> "create", dimension |-> 1, metric |-> "l2", overwrite |-> TRUE]}

FewBatches == Batches(1, {"A", "S"})

FewReads ==
    {[type |-> "info"],
     [type |-> "content", offset |-> 0, limit |-> 2, preview_dim |-> 2]}

CrashReads ==
    FewReads \cup {[type |-> "content", offset |-> 0, limit |-> 2, preview_dim |-> 1]}

\* Requests served one at a time; the process may die at any step.
CrashNext == Step(1, FewCreates, FewBatches, CrashReads, TRUE) \/ Crash

CrashSpec == Init /\ [][CrashNext]_vars

\* Requests served one at a time; a write may fail.
FailNext == Step(1, FewCreates, FewBatches, FewReads, TRUE) \/ IOFailure(1)

FailSpec == Init /\ [][FailNext]_vars

\* The requests of the specifications with several handlers.
ConcCreates ==
    {[type |-> "create", dimension |-> 2, metric |-> "cosine", overwrite |-> FALSE]}

ConcBatches == Batches(1, {"A"})

\* The handlers of the thread pool, interleaved at their file accesses.
ConcNext == \E p \in Procs : Step(p, ConcCreates, ConcBatches, FewReads, FALSE)

ConcSpec == Init /\ [][ConcNext]_vars

\* All of it: interleaved handlers, failing writes, the process dying.
Next ==
    \/ \E p \in Procs : Step(p, ConcCreates, ConcBatches, FewReads, FALSE) \/ IOFailure(p)
    \/ Crash

Spec == Init /\ [][Next]_vars

\* Pairs of db_names resolved to their files.
ResolveNext ==
    \/ \E n1, n2 \in DbNames : ResolveCreate(n1, n2)
    \/ AddressByPath

ResolveSpec == Init /\ [][ResolveNext]_vars

\* One run of parse_document_stream's generator, read to its end.
StreamNext ==
    \/ StreamBegin
    \/ BuildConverter
    \/ BuildConverterRaises
    \/ \E pages, num_pages \in 0..MaxPages : Convert(pages, num_pages)
    \/ ConvertNotSuccess
    \/ ConvertRaises
    \/ PageProgress
    \/ ExportPage
    \/ ExportPageRaises
    \/ ExportDocument
    \/ ExportDocumentRaises
    \/ Except
    \/ Finally

StreamSpec == Init /\ [][StreamNext]_vars

\* ------------------------------------------------------------ properties

Upserted(p) == pc[p] = "done" /\ op[p].type = "upsert"

\* Some id occurs at two positions of the batch.
RepeatsAnId(items) ==
    \E i, j \in 1..Len(items) : i # j /\ items[i].id = items[j].id

\* The ids of the records a handler would load from the sidecar as it is.
SidecarIds == IF Readable(metaFile) THEN RecordIds(metaFile) ELSE {}

\* The vector an index of this metric stores for an input vector.
StoredForm(v, metric) ==
    IF metric = "cosine" /\ SumSq(v) # 0
    THEN [i \in 1..Len(v) |-> v[i] \div Sqrt(SumSq(v))]
    ELSE v

\* C1: served one at a time and without failure, after every upsert that
\* returns success the ids of the persisted index are the ids of the persisted
\* records.
C1_UpsertLeavesEqualIdSets ==
    \A p \in Procs :
        (Upserted(p) /\ IsOk(resp[p])) =>
            /\ Readable(idxFile)
            /\ Readable(metaFile)
            /\ IndexIds(idxFile) = RecordIds(metaFile)

C1_Witness ==
    /\ Upserted(1)
    /\ IsOk(resp[1])
    /\ Len(op[1].items) = 2
    /\ IndexIds(idxFile) = {1, 2}
    /\ IndexIds(pre[1].idx) = {1}

\* C2: whenever the process has died and no handler runs, the ids of the index
\* on disk are the ids of the records on disk (here: whenever both can be
\* loaded).
C2_CrashLeavesEqualIdSets ==
    ((\A p \in Procs : pc[p] = "idle") /\ Readable(idxFile) /\ metaFile # PartialFile)
        => IndexIds(idxFile) = SidecarIds

\* C3: two upserts with disjoint batches that both returned success leave every
\* id of both batches in the persisted index and in the persisted records.
C3_ConcurrentUpsertsBothKept ==
    (/\ Upserted(1) /\ IsOk(resp[1])
     /\ Upserted(2) /\ IsOk(resp[2])
     /\ IdSet(op[1].items) \cap IdSet(op[2].items) = {})
        => /\ Readable(idxFile)
           /\ Readable(metaFile)
           /\ IdSet(op[1].items) \cup IdSet(op[2].items) \subseteq IndexIds(idxFile)
           /\ IdSet(op[1].items) \cup IdSet(op[2].items) \subseteq RecordIds(metaFile)
           /\ IndexIds(idxFile) = RecordIds(metaFile)

\* C4: the total an info or content call returns is the number of records it
\* loaded: the index and the records it read are of one committed version.
C4_ReadSeesOneVersion ==
    \A p \in Procs :
        (pc[p] = "done" /\ op[p].type \in {"info", "content"} /\ IsOk(resp[p])) =>
            resp[p].total = Cardinality(RecordKeys(meta[p]))

\* C5: an upsert on an existing index of dimension d, with a batch in which
\* some vector's length is not d, fails with DimensionMismatch naming d and an
\* offending length, and leaves both files as they were.
C5_WrongLengthIsDimensionMismatch ==
    \A p \in Procs :
        (/\ Upserted(p)
         /\ ~RepeatsAnId(op[p].items)
         /\ Readable(pre[p].idx)
         /\ \E i \in 1..Len(op[p].items) : Len(op[p].items[i].vector) # pre[p].idx.d)
            => /\ resp[p].kind = "DimensionMismatch"
               /\ resp[p].expected = pre[p].idx.d
               /\ \E i \in 1..Len(op[p].items) :
                      /\ Len(op[p].items[i].vector) # pre[p].idx.d
                      /\ resp[p].got = Len(op[p].items[i].vector)
               /\ Disk = pre[p]

\* C6: an upsert whose batch repeats an id fails with DuplicateId, has loaded
\* neither store, and leaves both files as they were.
C6_DuplicateIdRejectedFirst ==
    \A p \in Procs :
        (Upserted(p) /\ RepeatsAnId(op[p].items)) =>
            /\ resp[p] = Fail(422, "DuplicateId")
            /\ index[p] = NoFile
            /\ meta[p] = NoFile
            /\ Disk = pre[p]

C6_Witness ==
    /\ Upserted(1)
    /\ RepeatsAnId(op[1].items)
    /\ Readable(idxFile)
    /\ Ntotal(idxFile) = 1
    /\ resp[1].kind = "DuplicateId"

\* C7: the upsert that follows a successful upsert of the same batch leaves the
\* index file and the sidecar as that one left them, and returns its total.
C7_UpsertIdempotent ==
    \A p \in Procs :
        (/\ Upserted(p) /\ IsOk(resp[p])
         /\ last.valid
         /\ last.items = op[p].items)
            => /\ Disk = pre[p]
               /\ resp[p].total = last.total

C7_Witness ==
    /\ Upserted(1)
    /\ IsOk(resp[1])
    /\ last.valid
    /\ last.items = op[1].items
    /\ Len(op[1].items) = 2
    /\ Ntotal(idxFile) = 2
    /\ metaFile.metric = "cosine"

\* C8: after a successful upsert every id of the batch is stored once, with the
\* batch's vector (as the metric stores it), text and metadata; the total
\* returned counts the ids stored before together with the batch's, so it is
\* the total before when every id of the batch was stored.
C8_UpsertReplaces ==
    \A p \in Procs :
        (Upserted(p) /\ IsOk(resp[p])) =>
            LET items == op[p].items
                before == pre[p].idx
            IN  /\ resp[p].total = Cardinality(IndexIds(before) \cup IdSet(items))
                /\ resp[p].total = Ntotal(idxFile)
                /\ IdSet(items) \subseteq IndexIds(before) =>
                       resp[p].total = Ntotal(before)
                /\ \A i \in 1..Len(items) :
                       /\ Cardinality({k \in 1..Ntotal(idxFile) :
                              idxFile.entries[k].id = items[i].id}) = 1
                       /\ Reconstruct(idxFile, items[i].id)
                              = StoredForm(items[i].vector, metaFile.metric)
                       /\ metaFile.records[StrOfId(items[i].id)]
                              = [text |-> items[i].text, metadata |-> items[i].metadata]

C8_Witness ==
    /\ Upserted(1)
    /\ IsOk(resp[1])
    /\ Readable(pre[1].idx)
    /\ Ntotal(pre[1].idx) = 2
    /\ resp[1].total = 2
    /\ \E i \in 1..Len(op[1].items) :
           LET it == op[1].items[i]
           IN  /\ it.id \in IndexIds(pre[1].idx)
               /\ Reconstruct(pre[1].idx, it.id) # Reconstruct(idxFile, it.id)
               /\ pre[1].meta.records[StrOfId(it.id)].text # it.text
               /\ pre[1].meta.records[StrOfId(it.id)].metadata # it.metadata

\* C9, as stated: every upsert on a location without an index file fails with
\* NotFound and leaves the location without files.
C9_MissingIndexIsNotFound ==
    \A p \in Procs :
        (Upserted(p) /\ pre[p].idx = NoFile) =>
            /\ resp[p] = Fail(404, "NotFound")
            /\ idxFile = NoFile
            /\ metaFile = NoFile

\* C9, amended: an upsert whose batch repeats no id, on a location without an
\* index file, fails with NotFound and leaves the location without files.
C9_ValidUpsertMissingIndexIsNotFound ==
    \A p \in Procs :
        (Upserted(p) /\ ~RepeatsAnId(op[p].items) /\ pre[p].idx = NoFile) =>
            /\ resp[p] = Fail(404, "NotFound")
            /\ idxFile = NoFile
            /\ metaFile = NoFile

C9_Witness ==
    /\ Upserted(1)
    /\ ~RepeatsAnId(op[1].items)
    /\ Len(op[1].items) = 2
    /\ pre[1].idx = NoFile
    /\ resp[1].kind = "NotFound"

\* C10: a create without overwrite on a location whose index file exists fails
\* with AlreadyExists and leaves the index file and the sidecar as they were.
C10_CreateKeepsExisting ==
    \A p \in Procs :
        (/\ pc[p] = "done" /\ op[p].type = "create"
         /\ pre[p].idx # NoFile
         /\ ~op[p].overwrite)
            => /\ resp[p] = Fail(400, "AlreadyExists")
               /\ Disk = pre[p]

C10_Witness ==
    /\ pc[1] = "done"
    /\ op[1].type = "create"
    /\ ~op[1].overwrite
    /\ resp[1].kind = "AlreadyExists"
    /\ Readable(idxFile)
    /\ Ntotal(idxFile) = 2
    /\ op[1].dimension # idxFile.d
    /\ op[1].metric # metaFile.metric

\* The pages a client gets that steps offset by limit until a page is empty,
\* one after the other.
RECURSIVE JoinPages(_, _, _, _)
JoinPages(idx, mt, offset, limit) ==
    LET page == ContentResponse(idx, mt, [offset |-> offset, limit |-> limit,
                                           preview_dim |-> 1]).items
    IN  IF page = <<>> THEN <<>>
        ELSE page \o JoinPages(idx, mt, offset + limit, limit)

StrictlyAscendingIds(items) ==
    \A i, j \in 1..Len(items) : i < j => items[i].id < items[j].id

\* C11: a content page is sorted by strictly ascending id and holds the records
\* of ranks offset+1 .. offset+limit among the stored ids (none from an offset
\* at or past the end, which is no error); for every limit the pages joined are
\* all stored records, once each, in ascending id order.
C11_ContentPaging ==
    \A p \in Procs :
        (/\ pc[p] = "done" /\ op[p].type = "content"
         /\ Readable(idxFile) /\ Readable(metaFile))
            => LET ids == RecordIds(metaFile)
                   n == Cardinality(ids)
                   items == resp[p].items
                   rest == IF op[p].offset >= n THEN 0 ELSE n - op[p].offset
               IN  /\ IsOk(resp[p])
                   /\ Len(items) = Min(op[p].limit, rest)
                   /\ StrictlyAscendingIds(items)
                   /\ \A i \in 1..Len(items) :
                          /\ items[i].id \in ids
                          /\ Cardinality({k \in ids : k < items[i].id})
                                 = op[p].offset + i - 1
                          /\ items[i].text
                                 = metaFile.records[StrOfId(items[i].id)].text
                          /\ items[i].metadata
                                 = metaFile.records[StrOfId(items[i].id)].metadata
                   /\ \A limit \in PageLimits :
                          LET all == JoinPages(idxFile, metaFile, 0, limit)
                          IN  /\ Len(all) = n
                              /\ StrictlyAscendingIds(all)
                              /\ {all[i].id : i \in 1..Len(all)} = ids

C11_Witness ==
    /\ pc[1] = "done"
    /\ op[1].type = "content"
    /\ op[1].offset = 1
    /\ op[1].limit = 1
    /\ Readable(metaFile)
    /\ RecordIds(metaFile) = {1, 2}
    /\ Readable(idxFile)
    /\ idxFile.entries[1].id = 2
    /\ Len(resp[1].items) = 1
    /\ resp[1].items[1].id = 2

\* An offset at the end with the largest limit: an empty page.
C11_WitnessPastEnd ==
    /\ pc[1] = "done"
    /\ op[1].type = "content"
    /\ op[1].limit = LimitMax
    /\ Readable(metaFile)
    /\ op[1].offset = Cardinality(RecordIds(metaFile))
    /\ op[1].offset > 0
    /\ IsOk(resp[1])
    /\ resp[1].items = <<>>

\* C12: the index file and the sidecar are never left partially written: when
\* no handler runs (after a crash in the middle of a write, too) each file is
\* whole.
C12_FilesNeverPartial ==
    (\A p \in Procs : pc[p] = "idle") =>
        /\ idxFile # PartialFile
        /\ metaFile # PartialFile

C14_IndexBeforeSidecar ==
    \A p \in Procs :
        (op[p].type = "upsert" /\ pc[p] # "idle") =>
            /\ metaFile # pre[p].meta => idxFile = index[p]
            /\ pc[p] \in {"save_meta", "save_meta_body"} => idxFile = index[p]
            /\ (pc[p] = "done" /\ resp[p].kind = "IOError") => metaFile = pre[p].meta
            /\ (pc[p] = "done" /\ Readable(pre[p].idx) /\ idxFile = PartialFile) =>
                   /\ resp[p] = Fail(500, "IOError")
                   /\ metaFile = pre[p].meta

C14_Witness ==
    /\ Upserted(1)
    /\ resp[1].kind = "IOError"
    /\ Readable(pre[1].idx)
    /\ Ntotal(pre[1].idx) = 1
    /\ idxFile = PartialFile
    /\ Readable(metaFile)
    /\ RecordIds(metaFile) = {1}
    /\ IdSet(op[1].items) = {2}

\* C15: a successful create leaves an empty index and an empty sidecar that
\* carries the requested dimension and metric, whatever was there before.
C15_CreateLeavesEmptyIndex ==
    \A p \in Procs :
        (pc[p] = "done" /\ op[p].type = "create" /\ IsOk(resp[p])) =>
            /\ resp[p].total = 0
            /\ resp[p].dimension = op[p].dimension
            /\ resp[p].metric = op[p].metric
            /\ Readable(idxFile)
            /\ Ntotal(idxFile) = 0
            /\ idxFile.d = op[p].dimension
            /\ idxFile.metric_type = MetricType(op[p].metric)
            /\ Readable(metaFile)
            /\ RecordKeys(metaFile) = {}
            /\ metaFile.dimension = op[p].dimension
            /\ metaFile.metric = op[p].metric

C15_Witness ==
    /\ pc[1] = "done"
    /\ op[1].type = "create"
    /\ IsOk(resp[1])
    /\ op[1].overwrite
    /\ Readable(pre[1].idx)
    /\ Ntotal(pre[1].idx) = 2
    /\ pre[1].idx.d # op[1].dimension
    /\ pre[1].meta.metric = "cosine"
    /\ op[1].metric = "l2"
    /\ Ntotal(idxFile) = 0

\* C16: content succeeds whatever vectors are missing: a record whose id has no
\* vector in the index is returned with its text and metadata and an empty
\* preview, a record whose vector is stored with the first preview_dim
\* components of it.
C16_ContentSurvivesMissingVector ==
    \A p \in Procs :
        (/\ pc[p] = "done" /\ op[p].type = "content"
         /\ Readable(idxFile) /\ Readable(metaFile))
            => /\ IsOk(resp[p])
               /\ Len(resp[p].items)
                      = Min(op[p].limit,
                            IF op[p].offset >= Cardinality(RecordIds(metaFile)) THEN 0
                            ELSE Cardinality(RecordIds(metaFile)) - op[p].offset)
               /\ \A i \in 1..Len(resp[p].items) :
                      LET it == resp[p].items[i]
                          pv == it.embedding_preview
                      IN  /\ it.id \in RecordIds(metaFile)
                          /\ it.text = metaFile.records[StrOfId(it.id)].text
                          /\ it.metadata = metaFile.records[StrOfId(it.id)].metadata
                          /\ it.id \notin IndexIds(idxFile) => pv = <<>>
                          /\ it.id \in IndexIds(idxFile) =>
                                 /\ Len(pv) <= op[p].preview_dim
                                 /\ Len(pv) = Min(idxFile.d, op[p].preview_dim)
                                 /\ \A k \in 1..Len(pv) :
                                        pv[k] = Reconstruct(idxFile, it.id)[k]

C16_Witness ==
    /\ pc[1] = "done"
    /\ op[1].type = "content"
    /\ IsOk(resp[1])
    /\ Readable(idxFile)
    /\ Readable(metaFile)
    /\ Len(resp[1].items) = 1
    /\ resp[1].items[1].id \notin IndexIds(idxFile)
    /\ resp[1].items[1].embedding_preview = <<>>
    /\ resp[1].items[1].text = "a"

\* C17: the dimension and the metric that info and upsert report are those of
\* the create that wrote the index file: the file's dimension, and a metric of
\* the file's metric type.
C17_DimensionAndMetricFixed ==
    \A p \in Procs :
        (/\ pc[p] = "done" /\ op[p].type \in {"info", "upsert"} /\ IsOk(resp[p])
         /\ Readable(idxFile))
            => /\ resp[p].dimension = idxFile.d
               /\ MetricType(resp[p].metric) = idxFile.metric_type

\* C19: a successful upsert leaves every id outside its batch as it was, in the
\* index (stored or not, and its vector) and in the sidecar (recorded or not,
\* and its text and metadata).
C19_UpsertFrame ==
    \A p \in Procs :
        (Upserted(p) /\ IsOk(resp[p]) /\ Readable(pre[p].idx) /\ Readable(pre[p].meta)) =>
            \A id \in IDs \ IdSet(op[p].items) :
                /\ id \in IndexIds(idxFile) <=> id \in IndexIds(pre[p].idx)
                /\ id \in IndexIds(idxFile) =>
                       /\ Reconstruct(idxFile, id) = Reconstruct(pre[p].idx, id)
                       /\ Cardinality({k \in 1..Ntotal(idxFile) :
                              idxFile.entries[k].id = id}) = 1
                /\ StrOfId(id) \in RecordKeys(metaFile)
                       <=> StrOfId(id) \in RecordKeys(pre[p].meta)
                /\ StrOfId(id) \in RecordKeys(metaFile) =>
                       metaFile.records[StrOfId(id)] = pre[p].meta.records[StrOfId(id)]

C19_Witness ==
    /\ Upserted(1)
    /\ IsOk(resp[1])
    /\ IdSet(op[1].items) = {1}
    /\ Readable(pre[1].idx)
    /\ IndexIds(pre[1].idx) = {1, 2}
    /\ Reconstruct(pre[1].idx, 1) # Reconstruct(idxFile, 1)
    /\ Reconstruct(idxFile, 2) = <<0, 1>>
    /\ metaFile.records["2"].text = "b"

\* C18: two create requests with the same base_dir whose sanitized db_names
\* differ are resolved to different index files and different sidecars, and
\* normalizing a resolved path again gives the same path.
C18_ResolutionInjective ==
    res.phase # "none" =>
        /\ (/\ IsOk(res.located[1]) /\ IsOk(res.located[2])
            /\ SafeDbName(res.names[1]) # SafeDbName(res.names[2]))
               => /\ res.located[1].db_file # res.located[2].db_file
                  /\ res.located[1].meta # res.located[2].meta
        /\ res.phase = "addressed" =>
               \A i \in 1..2 : IsOk(res.located[i]) => res.again[i] = res.located[i].db_file

Terminal(e) == e.event \in {"complete", "error"}

\* C20: the stream has at most one terminal event (complete or error) and
\* nothing after it, a stream that has ended has one, every page_result follows
\* a progress event of its page, pages ascend, and when the stream has ended the
\* temporary file is gone.
C20_StreamEndsOnce ==
    LET ev == stream.events
        terminals == {i \in 1..Len(ev) : Terminal(ev[i])}
    IN  /\ Cardinality(terminals) <= 1
        /\ \A i \in terminals : i = Len(ev)
        /\ stream.pc = "ended" => (Cardinality(terminals) = 1 /\ ~stream.tmp)
        /\ \A i \in 1..Len(ev) :
               ev[i].event = "page_result" =>
                   \E j \in 1..(i - 1) :
                       /\ ev[j].event = "progress"
                       /\ ev[j].data.page = ev[i].data.page
        /\ \A i, j \in 1..Len(ev) :
               (/\ i < j /\ ev[i].event = ev[j].event
                /\ ev[i].event \in {"progress", "page_result"})
                   => ev[i].data.page < ev[j].data.page

C20_Witness ==
    /\ stream.pc = "ended"
    /\ ~stream.tmp
    /\ stream.pages = 2
    /\ stream.events[Len(stream.events)].event = "complete"
    /\ \E i \in 1..Len(stream.events) :
           stream.events[i] = SseEvent("page_result", [page |-> 2])
    /\ \A i \in 1..Len(stream.events) :
           stream.events[i] # SseEvent("page_result", [page |-> 1])

C20_WitnessError ==
    /\ stream.pc = "ended"
    /\ ~stream.tmp
    /\ Len(stream.events) = 4
    /\ stream.events[3].event = "page_result"
    /\ stream.events[4].event = "error"

====
